---------------------------- MODULE Spec2Model ----------------------------
(***************************************************************************)
(* The parallel-tempering coordinator of PT-flow (operation `sample` of    *)
(* PT-flow/parallel_tempering.py) driving the replica simulations of       *)
(* MCMC-flow (operation `sample` of MCMC-flow/project.py).                 *)
(*                                                                         *)
(* The coordinator is one sequential process; pc is the statement it is    *)
(* at.  The replicas run outside of it and share with it only their job    *)
(* documents (done, swap) and their snapshot files (restart.gsd).          *)
(***************************************************************************)
EXTENDS Integers, Sequences, FiniteSets, TLC

(***************************************************************************)
(* Bounds of the model.                                                    *)
(***************************************************************************)
\* the ladder has 0..MaxReplicas replicas
MaxReplicas == 3
\* job.sp.n_attempts is drawn from 0..MaxAttempts
MaxAttempts == 2
\* job.sp.max_tries is drawn from 0..MaxTries
MaxTries == 2
\* the coordinator's process is stopped from outside at most MaxKills times
MaxKills == 1
\* a round-trip test applies the exchange of one pair at most MaxPasses times
MaxPasses == 2

(***************************************************************************)
(* Program constants.                                                      *)
(***************************************************************************)
\* the exchange parameters of the ladder, ascending (e_factor, in 1/100)
SwapParameters == <<1, 10, 20, 50, 70, 100>>

VARIABLES
    \* ---- the PT job: statepoint and document
    n_attempts,       \* job.sp.n_attempts
    max_tries,        \* job.sp.max_tries
    current_attempt,  \* job.doc["current_attempt"]
    swap_history,     \* job.doc["swap_history"]
    pt_done,          \* job.doc["done"] of the PT job
    \* ---- the simulation jobs (replicas), keyed by ladder index 0..nrep-1
    nrep,             \* number of replicas init_jobs creates
    done,             \* job.doc["done"] of each replica
    swap,             \* job.doc["swap"] of each replica
    snapshot,         \* content of each replica's restart.gsd
    inflight,         \* the replica has a submitted run that has not ended
    \* ---- one invocation of the coordinator
    pc,               \* statement the coordinator is at
    err,              \* the exception that ended the invocation
    wait_time,        \* local wait_time
    retries,          \* local retries of the wait wrapper
    value,            \* what check_status returned
    i,                \* local i
    j,                \* local j
    positions_i,      \* local positions_i
    positions_j,      \* local positions_j
    \* ---- history variables (not program state)
    applied,          \* per swap record: snapshot writes completed for it
    fresh,            \* replicas that finished a run submitted after the
                      \* latest record's exchange was fully written
    begin,            \* <<current_attempt, len(swap_history)>> at loop test
    base,             \* the snapshots as the latest record's append found them
    evals,            \* evaluations of all-done in the current poll
    kills             \* times the coordinator was stopped from outside

vars == <<n_attempts, max_tries, current_attempt, swap_history, pt_done,
          nrep, done, swap, snapshot, inflight,
          pc, err, wait_time, retries, value, i, j, positions_i, positions_j,
          applied, fresh, begin, base, evals, kills>>

jobDoc == <<current_attempt, swap_history, pt_done>>
statepoint == <<n_attempts, max_tries, nrep>>
replicaDocs == <<done, swap>>
locals == <<wait_time, retries, value, i, j, positions_i, positions_j>>
history == <<applied, fresh, begin, base, evals, kills>>

(***************************************************************************)
(* Snapshot files.                                                         *)
(***************************************************************************)
NoFile == <<"none", 0>>
\* a file opened with "wb" and not yet appended to
Truncated == <<"empty", 0>>
\* the positions of the system that replica w generated in its first run,
\* as later runs carried them on
Conf(w) == <<"conf", w>>
Readable(s) == s[1] = "conf"

Replicas == 0 .. nrep - 1

\* sim_jobs / swap_parameters, lines 195-200: one job per parameter value,
\* in ascending order of the parameter
sim_jobs == [k \in Replicas |-> k]
swap_parameters == [k \in Replicas |-> SwapParameters[k + 1]]

Last(s) == s[Len(s)]

(***************************************************************************)
(* Pure parts of the coordinator.                                          *)
(***************************************************************************)
\* variant: any() where line 127 has all()
AnyDone(d) == \E r \in DOMAIN d : d[r]
\* _check_status, line 127: all([job.doc["done"] for job in get_sim_jobs()])
AllDone(d) == \A r \in DOMAIN d : d[r]

\* variant: retries <= max_tries where line 100 has <
WaitLoopCondInclusive(r, m) == r <= m
\* wait.wrapper, line 100: while retries < max_tries
WaitLoopCond(r, m) == r < m

\* variant: the first run is set up at every invocation
AlwaysFirstRun(ca) == TRUE
\* sample, line 176: if job.doc["current_attempt"] == 0
IsFirstRun(ca) == ca = 0

\* variant: < where line 202 has <=
LoopCondStrict(ca, n) == ca < n
\* sample, line 202: while job.doc["current_attempt"] <= job.sp.n_attempts
LoopCond(ca, n) == ca <= n

\* variant: the swap goes ahead whatever the poll returned
AfterPollIgnoresResult(v) == "finalize"
\* sample, line 211: if check_status(...): the body of the if, or back to
\* the while test
AfterPoll(v) == IF v = "true" THEN "finalize" ELSE "loop"

\* variant: init_wait also before the first swap
WaitTimeAlwaysInit(ca) == "init_wait"
\* sample, lines 206-210: the initial wait of this poll
WaitTime(ca) == IF ca = 0 THEN "first_wait" ELSE "init_wait"

\* variant: the last record is finalized only from the third iteration on
NeedsFinalizeAfterFirst(ca) == ca > 1
\* sample, line 212: if job.doc["current_attempt"] > 0
NeedsFinalize(ca) == ca > 0

\* update_swap_info, line 133: swap["done"] = True on the last record
MarkLastDone(h) == [h EXCEPT ![Len(h)].done = TRUE]

\* variant: random.randint(0, len(sim_jobs) - 1)
PairChoicesFromZero(n) == 0 .. n - 1
\* variant: random.randint(1, len(sim_jobs))
PairChoicesToLen(n) == 1 .. n
\* sample, line 223: random.randint(1, len(sim_jobs) - 1), both ends included
PairChoices(n) == 1 .. n - 1

\* variant: the two parameters are recorded the wrong way round
SwapRecordCrossed(a, b) ==
    [i |-> a, j |-> b,
     param_i |-> swap_parameters[b], param_j |-> swap_parameters[a],
     job_i |-> sim_jobs[a], job_j |-> sim_jobs[b], done |-> FALSE]
\* sample, lines 236-237: the record appended for the pair (a, b)
SwapRecord(a, b) ==
    [i |-> a, j |-> b,
     param_i |-> swap_parameters[a], param_j |-> swap_parameters[b],
     job_i |-> sim_jobs[a], job_j |-> sim_jobs[b], done |-> FALSE]

\* variant: line 238 left out
KeepAttempt(ca) == ca
\* sample, line 238: job.doc["current_attempt"] += 1
IncrementAttempt(ca) == ca + 1

\* variant: replica i's snapshot is written before replica j's is read
SwapStepsWriteBeforeRead ==
    <<"read_i", "open_i", "write_i", "read_j", "open_j", "write_j">>
\* sample, lines 240-252: the order of the snapshot reads and writes
SwapSteps == <<"read_i", "read_j", "open_i", "write_i", "open_j", "write_j">>

StepIndex(step) == CHOOSE k \in 1 .. Len(SwapSteps) : SwapSteps[k] = step
\* the statement after `step`: the next read or write, then submit_sims
AfterStep(step) ==
    IF StepIndex(step) = Len(SwapSteps) THEN "swap_reset"
    ELSE SwapSteps[StepIndex(step) + 1]

\* variant: replica j's snapshot is given back its own positions
WrittenPositionsOwnJ(step, pi, pj) == pj
\* sample, lines 248 and 251: snapshot_i gets positions_j, snapshot_j gets
\* positions_i
WrittenPositions(step, pi, pj) == IF step = "write_i" THEN pj ELSE pi

\* variant: only the two replicas of the pair are reset
ResetDoneOfPair(d) ==
    [r \in DOMAIN d |-> IF r \in {sim_jobs[i], sim_jobs[j]} THEN FALSE ELSE d[r]]
\* submit_sims, lines 143-144: job.doc["done"] = False for every sim job
ResetDone(d) == [r \in DOMAIN d |-> FALSE]

\* variant: project.submit() queues nothing
SubmittedNone(f, d) == f
\* submit_sims, line 146: project.submit() queues the operation of every
\* job whose post-condition (done) does not hold and that is not queued yet
Submitted(f, d) == [r \in DOMAIN f |-> f[r] \/ ~d[r]]

\* MCMC-flow sample, lines 137-143: the run continues from restart.gsd when
\* the file exists, and saves the positions it reaches
RunResult(r, s) == IF s = NoFile THEN Conf(r) ELSE s

(***************************************************************************)
(* Initial state: the PT job as init_PT.main creates it, the replicas as   *)
(* init_jobs creates them, no invocation yet.                              *)
(***************************************************************************)
Init ==
    /\ n_attempts \in 0 .. MaxAttempts
    /\ max_tries \in 0 .. MaxTries
    /\ nrep \in 0 .. MaxReplicas
    /\ current_attempt = 0
    /\ swap_history = << >>
    /\ pt_done = FALSE
    /\ done = [r \in 0 .. nrep - 1 |-> FALSE]
    /\ swap = [r \in 0 .. nrep - 1 |-> FALSE]
    /\ snapshot = [r \in 0 .. nrep - 1 |-> NoFile]
    /\ inflight = [r \in 0 .. nrep - 1 |-> FALSE]
    /\ pc = "idle"
    /\ err = "none"
    /\ wait_time = "none"
    /\ retries = 0
    /\ value = "none"
    /\ i = 0
    /\ j = 0
    /\ positions_i = NoFile
    /\ positions_j = NoFile
    /\ applied = << >>
    /\ fresh = {}
    /\ begin = <<0, 0>>
    /\ base = [r \in 0 .. nrep - 1 |-> NoFile]
    /\ evals = 0
    /\ kills = 0

\* variant: the failing statement is run again
RaiseAndRetry(e) ==
    /\ pc' = pc
    /\ err' = e
\* an exception leaves the operation
Raise(e) ==
    /\ pc' = "failed"
    /\ err' = e

(***************************************************************************)
(* The coordinator: operation sample of PT-flow.                           *)
(***************************************************************************)
\* the operation is run (again): every local starts afresh.  Line 176:
\* if job.doc["current_attempt"] == 0, the first run is set up; otherwise
\* the ladder is read from the job store (lines 195-200) and the loop entered
Invoke ==
    /\ pc \in {"idle", "failed", "returned", "killed"}
    /\ pc' = IF IsFirstRun(current_attempt) THEN "init" ELSE "loop"
    /\ err' = "none"
    /\ wait_time' = "none"
    /\ retries' = 0
    /\ value' = "none"
    /\ i' = 0
    /\ j' = 0
    /\ positions_i' = NoFile
    /\ positions_j' = NoFile
    /\ UNCHANGED <<jobDoc, statepoint, replicaDocs, snapshot, inflight,
                   applied, fresh, begin, base, evals, kills>>

\* lines 184-190: init_jobs() creates the replicas that do not exist yet
\* (setdefault keeps the documents of those that do), or fails
InitJobs ==
    /\ pc = "init"
    /\ \/ /\ pc' = "init_reset"
          /\ UNCHANGED err
       \/ Raise("init")
    /\ UNCHANGED <<jobDoc, statepoint, replicaDocs, snapshot, inflight,
                   locals, history>>

\* submit_sims, lines 143-144
ResetForRerun ==
    /\ pc \in {"init_reset", "swap_reset"}
    /\ done' = ResetDone(done)
    /\ pc' = IF pc = "init_reset" THEN "init_submit" ELSE "swap_submit"
    /\ UNCHANGED <<jobDoc, statepoint, swap, snapshot, inflight,
                   err, locals, history>>

\* submit_sims, lines 145-151; after the first submission the ladder is
\* read from the job store (lines 195-200) and the loop entered
Submit ==
    /\ pc \in {"init_submit", "swap_submit"}
    /\ \/ /\ inflight' = Submitted(inflight, done)
          /\ pc' = "loop"
          /\ UNCHANGED err
       \/ /\ Raise("submit")
          /\ UNCHANGED inflight
    /\ UNCHANGED <<jobDoc, statepoint, replicaDocs, snapshot,
                   locals, history>>

\* lines 202-210: the loop test, and the initial wait of this iteration
LoopTest ==
    /\ pc = "loop"
    /\ begin' = <<current_attempt, Len(swap_history)>>
    /\ IF LoopCond(current_attempt, n_attempts)
       THEN /\ wait_time' = WaitTime(current_attempt)
            /\ value' = "none"
            /\ pc' = "poll_enter"
       ELSE /\ pc' = "finish"
            /\ UNCHANGED <<wait_time, value>>
    /\ UNCHANGED <<jobDoc, statepoint, replicaDocs, snapshot, inflight,
                   err, retries, i, j, positions_i, positions_j,
                   applied, fresh, base, evals, kills>>

\* wait.wrapper, lines 100 and 111, reached with `r` retries: the loop
\* is entered, or False returned
AfterSleep(r) ==
    IF WaitLoopCond(r, max_tries)
    THEN /\ pc' = "poll_eval"
         /\ UNCHANGED value
    ELSE /\ value' = "false"
         /\ pc' = AfterPoll("false")

\* wait.wrapper, lines 95-100: retries = 0; time.sleep(init_wait)
InitialSleep ==
    /\ pc = "poll_enter"
    /\ retries' = 0
    /\ evals' = 0
    /\ AfterSleep(0)
    /\ UNCHANGED <<jobDoc, statepoint, replicaDocs, snapshot, inflight,
                   err, wait_time, i, j, positions_i, positions_j,
                   applied, fresh, begin, base, kills>>

\* wait.wrapper, lines 102-104: value = function(); if value: return value
PollEval ==
    /\ pc = "poll_eval"
    /\ evals' = evals + 1
    /\ IF AllDone(done)
       THEN /\ value' = "true"
            /\ pc' = AfterPoll("true")
       ELSE /\ pc' = "poll_sleep"
            /\ UNCHANGED value
    /\ UNCHANGED <<jobDoc, statepoint, replicaDocs, snapshot, inflight,
                   err, wait_time, retries, i, j, positions_i, positions_j,
                   applied, fresh, begin, base, kills>>

\* wait.wrapper, lines 106-110 and 100: time.sleep(extra_wait); retries += 1
ExtraSleep ==
    /\ pc = "poll_sleep"
    /\ retries' = retries + 1
    /\ AfterSleep(retries + 1)
    /\ UNCHANGED <<jobDoc, statepoint, replicaDocs, snapshot, inflight,
                   err, wait_time, i, j, positions_i, positions_j,
                   history>>

\* lines 212-216 and update_swap_info, lines 132-139
FinalizeLast ==
    /\ pc = "finalize"
    /\ IF NeedsFinalize(current_attempt)
       THEN /\ swap_history' = MarkLastDone(swap_history)
            /\ swap' = [swap EXCEPT ![Last(swap_history).job_i] = FALSE,
                                    ![Last(swap_history).job_j] = FALSE]
       ELSE UNCHANGED <<swap_history, swap>>
    /\ pc' = "select"
    /\ UNCHANGED <<current_attempt, pt_done, statepoint, done, snapshot,
                   inflight, err, locals, history>>

\* lines 223-230: i = random.randint(1, len(sim_jobs) - 1); j = i - 1;
\* randint raises ValueError on an empty range
SelectPair ==
    /\ pc = "select"
    /\ IF PairChoices(nrep) = {}
       THEN /\ Raise("ValueError")
            /\ UNCHANGED <<i, j>>
       ELSE /\ \E a \in PairChoices(nrep) :
                  /\ i' = a
                  /\ j' = a - 1
            /\ pc' = "append"
            /\ UNCHANGED err
    /\ UNCHANGED <<jobDoc, statepoint, replicaDocs, snapshot, inflight,
                   wait_time, retries, value, positions_i, positions_j,
                   history>>

\* lines 236-237: job.doc["swap_history"].append({...})
AppendRecord ==
    /\ pc = "append"
    /\ swap_history' = Append(swap_history, SwapRecord(i, j))
    /\ applied' = Append(applied, 0)
    /\ fresh' = {}
    /\ base' = snapshot
    /\ pc' = "increment"
    /\ UNCHANGED <<current_attempt, pt_done, statepoint, replicaDocs,
                   snapshot, inflight, err, locals, begin, evals, kills>>

\* line 238
Increment ==
    /\ pc = "increment"
    /\ current_attempt' = IncrementAttempt(current_attempt)
    /\ pc' = SwapSteps[1]
    /\ UNCHANGED <<swap_history, pt_done, statepoint, replicaDocs, snapshot,
                   inflight, err, locals, history>>

\* lines 240-241 and 243-244: gsd.hoomd.open(fn)[0], then the deep copy of
\* its positions; the open raises when the file cannot be read
ReadSnapshot ==
    /\ pc \in {"read_i", "read_j"}
    /\ LET job == IF pc = "read_i" THEN sim_jobs[i] ELSE sim_jobs[j]
       IN  \/ /\ Readable(snapshot[job])
              /\ IF pc = "read_i"
                 THEN /\ positions_i' = snapshot[job]
                      /\ UNCHANGED positions_j
                 ELSE /\ positions_j' = snapshot[job]
                      /\ UNCHANGED positions_i
              /\ pc' = AfterStep(pc)
              /\ UNCHANGED err
           \/ /\ Raise(pc)
              /\ UNCHANGED <<positions_i, positions_j>>
    /\ UNCHANGED <<jobDoc, statepoint, replicaDocs, snapshot, inflight,
                   wait_time, retries, value, i, j, history>>

\* lines 247 and 250: gsd.hoomd.open(fn, "wb") truncates the file in place,
\* or raises and leaves it
OpenForWrite ==
    /\ pc \in {"open_i", "open_j"}
    /\ LET job == IF pc = "open_i" THEN sim_jobs[i] ELSE sim_jobs[j]
       IN  \/ /\ snapshot' = [snapshot EXCEPT ![job] = Truncated]
              /\ pc' = AfterStep(pc)
              /\ UNCHANGED err
           \/ /\ Raise(IF pc = "open_i" THEN "write_i" ELSE "write_j")
              /\ UNCHANGED snapshot
    /\ UNCHANGED <<jobDoc, statepoint, replicaDocs, inflight, locals,
                   history>>

\* lines 248-249 and 251-252: the snapshot, holding the other replica's
\* positions, is appended to the truncated file; a failed append leaves
\* the file truncated
WriteSnapshot ==
    /\ pc \in {"write_i", "write_j"}
    /\ LET job == IF pc = "write_i" THEN sim_jobs[i] ELSE sim_jobs[j]
           pos == WrittenPositions(pc, positions_i, positions_j)
       IN  \/ /\ snapshot' = [snapshot EXCEPT ![job] = pos]
              /\ applied' = [applied EXCEPT ![Len(applied)] = @ + 1]
              /\ pc' = AfterStep(pc)
              /\ UNCHANGED err
           \/ /\ Raise(pc)
              /\ UNCHANGED <<snapshot, applied>>
    /\ UNCHANGED <<jobDoc, statepoint, replicaDocs, inflight, locals,
                   fresh, begin, base, evals, kills>>

\* line 257: job.doc["done"] = True
Finish ==
    /\ pc = "finish"
    /\ pt_done' = TRUE
    /\ pc' = "returned"
    /\ UNCHANGED <<current_attempt, swap_history, statepoint, replicaDocs,
                   snapshot, inflight, err, locals, history>>

(***************************************************************************)
(* The replicas: operation sample of MCMC-flow, run by the scheduler.      *)
(***************************************************************************)
\* lines 106-155: the run ends; it saved restart.gsd and set done
RunFinish(r) ==
    /\ inflight[r]
    /\ snapshot[r] # Truncated
    /\ snapshot' = [snapshot EXCEPT ![r] = RunResult(r, snapshot[r])]
    /\ done' = [done EXCEPT ![r] = TRUE]
    /\ inflight' = [inflight EXCEPT ![r] = FALSE]
    /\ fresh' = IF Len(applied) > 0 /\ Last(applied) = 2
                THEN fresh \cup {r} ELSE fresh
    /\ UNCHANGED <<jobDoc, statepoint, swap, pc, err, locals,
                   applied, begin, base, evals, kills>>

\* lines 106-111: restart.gsd exists and cannot be read: the run dies
\* before it sets done
RunCrash(r) ==
    /\ inflight[r]
    /\ snapshot[r] = Truncated
    /\ inflight' = [inflight EXCEPT ![r] = FALSE]
    /\ UNCHANGED <<jobDoc, statepoint, replicaDocs, snapshot, pc, err,
                   locals, history>>

(***************************************************************************)
(* The coordinator's process is stopped from outside, between any two      *)
(* statements.                                                             *)
(***************************************************************************)
Kill ==
    /\ pc \notin {"idle", "failed", "returned", "killed"}
    /\ kills < MaxKills
    /\ kills' = kills + 1
    /\ pc' = "killed"
    /\ UNCHANGED <<jobDoc, statepoint, replicaDocs, snapshot, inflight,
                   err, locals, applied, fresh, begin, base, evals>>

(***************************************************************************)
(* A round-trip test: lines 240-252 are run again on the same pair right   *)
(* after they ran, with no submission in between.                          *)
(***************************************************************************)
SwapAgain ==
    /\ pc = "swap_reset"
    /\ Last(applied) < 2 * MaxPasses
    /\ pc' = SwapSteps[1]
    /\ UNCHANGED <<jobDoc, statepoint, replicaDocs, snapshot, inflight,
                   err, locals, history>>

Coordinator ==
    \/ Invoke
    \/ InitJobs
    \/ ResetForRerun
    \/ Submit
    \/ LoopTest
    \/ InitialSleep
    \/ PollEval
    \/ ExtraSleep
    \/ FinalizeLast
    \/ SelectPair
    \/ AppendRecord
    \/ Increment
    \/ ReadSnapshot
    \/ OpenForWrite
    \/ WriteSnapshot
    \/ Finish

Next ==
    \/ Coordinator
    \/ \E r \in Replicas : RunFinish(r)
    \/ \E r \in Replicas : RunCrash(r)

NextKill ==
    \/ Next
    \/ Kill

NextHarness ==
    \/ Next
    \/ SwapAgain

\* the coordinator is re-run only after it returned or raised
Spec == Init /\ [][Next]_vars

\* the coordinator may also be stopped at any statement and re-run
SpecKill == Init /\ [][NextKill]_vars

\* the round-trip test runs ladders that are given one or two attempts
InitHarness ==
    /\ Init
    /\ n_attempts <= 1

\* the coordinator under the round-trip test
SpecHarness == InitHarness /\ [][NextHarness]_vars

\* the coordinator's process keeps running and is run again when it ended,
\* and the scheduler lets every submitted run come to its end
Fairness ==
    /\ WF_vars(Coordinator)
    /\ \A r \in 0 .. MaxReplicas - 1 : WF_vars(r \in Replicas /\ RunFinish(r))

\* ladders whose poll evaluates the status at least once
InitLive ==
    /\ Init
    /\ max_tries >= 1
    /\ n_attempts <= 2

SpecLive == InitLive /\ [][Next]_vars /\ Fairness

(***************************************************************************)
(* The claims.                                                             *)
(***************************************************************************)
\* the statements of the snapshot exchange, lines 240-252
ReadPcs == {"read_i", "read_j"}
WritePcs == {"open_i", "write_i", "open_j", "write_j"}
SnapshotErrors == {"read_i", "read_j", "write_i", "write_j"}

\* C1: whenever the coordinator is at a statement that writes a replica's
\* snapshot (and until it resets the done flags), every replica of the
\* ladder has done = true and no run of any replica is in flight.
C1_SwapOnlyWhenAllDone ==
    pc \in WritePcs \cup {"swap_reset"} =>
        \A r \in Replicas : done[r] /\ ~inflight[r]

\* C1 witness: the first snapshot is written, the second is being written.
C1_Witness ==
    /\ pc = "write_j"
    /\ Last(applied) = 1
    /\ nrep >= 2
    /\ AllDone(done)

\* C2: a swap record's done flag turns true only when its snapshot
\* exchange was fully written and both its replicas have since finished a
\* run that was submitted after the exchange.
C2_FinalizedOnlyAfterRerun ==
    [][\A k \in 1 .. Len(swap_history) :
          (/\ Len(swap_history') >= k
           /\ ~swap_history[k].done
           /\ swap_history'[k].done)
          => /\ applied[k] = 2
             /\ {swap_history[k].job_i, swap_history[k].job_j} \subseteq fresh
      ]_vars

\* C3: every record of the swap history that the coordinator has moved
\* past (it is finalized, or a later record follows it) stands for one
\* complete snapshot exchange: both files were written for it.
C3_EveryRecordAppliedOnce ==
    \A k \in 1 .. Len(swap_history) :
        (swap_history[k].done \/ k < Len(swap_history)) => applied[k] = 2

\* C4: only the last record of the swap history can have done = false.
C4_OnlyLastIncomplete ==
    \A k \in 1 .. Len(swap_history) - 1 : swap_history[k].done

\* C4 witness: a second record was appended after the first was finalized.
C4_Witness ==
    /\ Len(swap_history) >= 2
    /\ swap_history[1].done
    /\ ~Last(swap_history).done

\* C5: at the loop test, len(swap_history) = current_attempt; an iteration
\* whose poll returned true added one record and one to current_attempt, an
\* iteration whose poll returned false changed neither.
C5_HistoryLengthIsAttempt ==
    pc = "loop" =>
        /\ Len(swap_history) = current_attempt
        /\ value = "true" =>
               /\ current_attempt = begin[1] + 1
               /\ Len(swap_history) = begin[2] + 1
        /\ value = "false" =>
               /\ current_attempt = begin[1]
               /\ Len(swap_history) = begin[2]

\* C5 witness: the second iteration with a swap is complete.
C5_Witness ==
    /\ pc = "loop"
    /\ value = "true"
    /\ current_attempt = 2
    /\ Len(swap_history) = 2

\* C6: when the PT job is done and every swap it recorded was fully
\* applied, n_attempts swaps were made: the history has n_attempts records
\* and current_attempt is n_attempts (stated for n_attempts = 2).
C6_ExactlyNSwaps ==
    (/\ pt_done
     /\ n_attempts = 2
     /\ \A k \in 1 .. Len(applied) : applied[k] = 2) =>
        /\ Len(swap_history) = 2
        /\ current_attempt = 2

\* C7: when the write of replica j's snapshot failed, replica i's snapshot
\* holds the positions it held before the swap.
C7_NoPartialSwap ==
    (pc = "failed" /\ err = "write_j") =>
        snapshot[sim_jobs[i]] = positions_i

\* C8: when a snapshot read failed, no snapshot of this swap has been
\* written: replica i's file still holds what was read from it.
C8_ReadFailureWritesNothing ==
    (pc = "failed" /\ err \in ReadPcs) =>
        /\ Last(applied) = 0
        /\ snapshot[sim_jobs[i]] # Truncated \/ err = "read_i"
        /\ err = "read_j" => snapshot[sim_jobs[i]] = positions_i

\* C8 witness: the read of replica j's snapshot failed after replica i's
\* was read.
C8_Witness ==
    /\ pc = "failed"
    /\ err = "read_j"
    /\ Readable(positions_i)

\* C9: when a snapshot read or write failed, current_attempt and the
\* length of the swap history are what they were at the loop test of that
\* iteration.
C9_FatalErrorLeavesStateUnmutated ==
    (pc = "failed" /\ err \in SnapshotErrors) =>
        /\ current_attempt = begin[1]
        /\ Len(swap_history) = begin[2]

\* C10: a poll evaluates all-done at most max_tries times, none before the
\* initial sleep is over; it returns true at the first evaluation that
\* finds every replica done (after `retries` failed ones, each followed by
\* one extra sleep), and returns false only after max_tries failed ones.
C10_PollerBounded ==
    /\ evals <= max_tries
    /\ pc = "poll_eval" => (value = "none" /\ evals = retries)
    /\ pc = "poll_sleep" => (value = "none" /\ evals = retries + 1)
    /\ value = "true" => evals = retries + 1
    /\ value = "false" => (evals = max_tries /\ retries = max_tries)

\* C10 witness: the poll returned true at its second evaluation.
C10_Witness ==
    /\ pc = "finalize"
    /\ value = "true"
    /\ retries = 1
    /\ evals = 2

PollPcs == {"poll_enter", "poll_eval", "poll_sleep"}
ExchangePcs == ReadPcs \cup WritePcs
AfterSelectPcs == {"append", "increment"} \cup ExchangePcs \cup {"swap_reset", "swap_submit"}

\* C11: a poll that is given max_tries = 0 and ends returns True if and only
\* if every replica was done when the poll was called, and makes no sleep
\* after the initial one.
C11_ZeroRetriesTrueIffDone ==
    [][(/\ max_tries = 0
        /\ pc = "poll_enter"
        /\ pc' # "poll_enter")
       => /\ (value' = "true") <=> AllDone(done)
          /\ retries' = 0 ]_vars

\* C11, as the code has it: with max_tries = 0 the poll never evaluates
\* the status, never sleeps after the initial sleep and never returns True;
\* it returns False to the loop whether or not the replicas are done.
C11_ZeroRetriesNeverEvaluates ==
    max_tries = 0 =>
        /\ evals = 0
        /\ retries = 0
        /\ value # "true"
        /\ pc \notin {"poll_eval", "poll_sleep"} \cup AfterSelectPcs

C11_Witness ==
    /\ max_tries = 0
    /\ pc = "loop"
    /\ value = "false"
    /\ nrep >= 2
    /\ AllDone(done)
    /\ \A r \in Replicas : Readable(snapshot[r])

\* C12: the pair selected on a ladder of at least two replicas is adjacent:
\* 1 <= i <= len(sim_jobs) - 1 and j = i - 1, so that j >= 0, i # j and both
\* are indices of the ladder; the same holds of every record of the history.
C12_PairAdjacent ==
    /\ (pc \in AfterSelectPcs /\ nrep >= 2) =>
          /\ 1 <= i /\ i <= nrep - 1
          /\ j = i - 1
          /\ j >= 0
          /\ i # j
          /\ {i, j} \subseteq DOMAIN sim_jobs
    /\ \A k \in 1 .. Len(swap_history) :
          /\ swap_history[k].i \in 1 .. nrep - 1
          /\ swap_history[k].j = swap_history[k].i - 1
          /\ swap_history[k].job_i = sim_jobs[swap_history[k].i]
          /\ swap_history[k].job_j = sim_jobs[swap_history[k].j]

C12_Witness ==
    /\ pc = "append"
    /\ nrep = 3
    /\ i = 2
    /\ j = 1
    /\ Len(swap_history) = 1
    /\ swap_history[1].i = 1

\* C13: when the exchange of lines 240-252 has been applied to one pair an
\* even number of times in succession, with no run of a replica in between,
\* every replica's snapshot holds the positions it held before the first of
\* them; after an odd number the two hold each other's.
C13_SwapTwiceRestores ==
    (pc = "swap_reset" /\ Len(applied) > 0) =>
        /\ Last(applied) % 4 = 0 => snapshot = base
        /\ Last(applied) % 4 = 2 =>
              /\ snapshot[sim_jobs[i]] = base[sim_jobs[j]]
              /\ snapshot[sim_jobs[j]] = base[sim_jobs[i]]

C13_Witness ==
    /\ pc = "swap_reset"
    /\ Last(applied) = 4
    /\ nrep = 3
    /\ Readable(base[sim_jobs[i]])
    /\ Readable(base[sim_jobs[j]])
    /\ base[sim_jobs[i]] # base[sim_jobs[j]]
    /\ snapshot = base

\* C14: once the PT job's done flag is true it stays true, and every later
\* step of the coordinator, also in a later invocation, only passes the
\* loop test and line 257 again: it polls nothing, selects and exchanges
\* nothing, resubmits nothing, and leaves current_attempt, swap_history,
\* every snapshot and every replica's document as they are.
C14_TerminalIrreversible ==
    [][pt_done =>
          /\ pt_done'
          /\ current_attempt' = current_attempt
          /\ swap_history' = swap_history
          /\ pc' \in {"returned", "loop", "finish"}
          /\ pc' # pc => UNCHANGED <<done, swap, snapshot, inflight>> ]_vars

C14_Witness ==
    /\ pt_done
    /\ pc = "finish"
    /\ nrep >= 2
    /\ current_attempt = n_attempts + 1
    /\ Len(swap_history) = current_attempt
    /\ \E r \in Replicas : inflight[r]

\* C15: on a ladder of fewer than two replicas the selection of a pair
\* raises, and nothing of the swap step happens: no record is appended,
\* current_attempt stays 0, no snapshot is written by the coordinator, and
\* no replica is reset or resubmitted after the failed selection.
C15_ShortLadderSwapFails ==
    nrep < 2 =>
        /\ pc \notin AfterSelectPcs
        /\ swap_history = << >>
        /\ current_attempt = 0
        /\ \A r \in Replicas : snapshot[r] \in {NoFile, Conf(r)}
        /\ err \in {"none", "init", "submit", "ValueError"}
        /\ (pc = "failed" /\ err = "ValueError") =>
              /\ AllDone(done)
              /\ \A r \in Replicas : ~inflight[r]

C15_Witness ==
    /\ nrep = 1
    /\ pc = "failed"
    /\ err = "ValueError"
    /\ snapshot[0] = Conf(0)
    /\ done[0]

CollaboratorErrors == {"init", "submit"}

\* C16: a failure of init_jobs() or of project.submit() ends the
\* invocation at the failing statement, which is not run again: the step
\* that raises changes nothing else (after a failed init there has been no
\* submission, and current_attempt and swap_history are as before), and
\* from then on the coordinator takes no step until it is invoked anew;
\* in between no replica is submitted and the PT job's document is untouched.
C16_CollaboratorFailureAborts ==
    [][/\ (err' \in CollaboratorErrors /\ err = "none") =>
             /\ pc' = "failed"
             /\ UNCHANGED <<jobDoc, replicaDocs, snapshot, inflight>>
       /\ (pc = "failed" /\ err \in CollaboratorErrors) =>
             /\ UNCHANGED jobDoc
             /\ \A r \in Replicas : inflight'[r] => inflight[r]
             /\ \/ pc' = "failed" /\ err' = err
                \/ pc' \in {"init", "loop"} /\ err' = "none" ]_vars

C16_Witness ==
    /\ pc = "failed"
    /\ err = "submit"
    /\ current_attempt > 0
    /\ Last(applied) = 2
    /\ \A r \in Replicas : ~done[r] /\ ~inflight[r]

\* C17: a coordinator that polls in an attempt with current_attempt > 0,
\* also after a restart that follows a failed submission, waits only for
\* replicas that can still finish: every replica that is not done is in
\* flight (its run was launched), so that the poll can succeed and the
\* ladder progress to Terminal.
C17_RestartAfterSubmitFailureProgresses ==
    (/\ pc \in PollPcs
     /\ current_attempt > 0
     /\ \A r \in Replicas : Readable(snapshot[r])) =>
        \A r \in Replicas : done[r] \/ inflight[r]

\* C18: the first run is set up once: whenever an invocation enters the
\* first-run block (init_jobs, reset of the done flags, submission), no
\* replica has a run in flight or finished, whatever point an earlier
\* invocation stopped at.
C18_FirstRunSetUpOnce ==
    pc \in {"init", "init_reset", "init_submit"} =>
        \A r \in Replicas :
            /\ ~inflight[r]
            /\ snapshot[r] = NoFile

\* C19: from the second write of an exchange until its record is
\* finalized, job.doc["swap"] is true on both replicas of the record.
C19_SwapPendingUntilFinalized ==
    (/\ Len(swap_history) > 0
     /\ Last(applied) = 2
     /\ ~Last(swap_history).done) =>
        /\ swap[Last(swap_history).job_i]
        /\ swap[Last(swap_history).job_j]

\* C20: within an attempt, a pair is selected only after the previous
\* record was finalized, and the done flags are reset and the ladder
\* resubmitted only after both snapshots of the attempt's record were
\* written; while the exchange is under way no flag has been reset.
C20_StepOrder ==
    /\ (pc = "select" /\ current_attempt > 0) =>
          \A k \in 1 .. Len(swap_history) : swap_history[k].done
    /\ pc \in AfterSelectPcs =>
          \A k \in 1 .. Len(swap_history) - 1 : swap_history[k].done
    /\ pc \in {"swap_reset", "swap_submit"} =>
          /\ Len(swap_history) = current_attempt
          /\ ~Last(swap_history).done
          /\ Last(applied) = 2
    /\ pc \in ExchangePcs =>
          /\ Last(applied) < 2
          /\ AllDone(done)

C20_Witness ==
    /\ pc = "swap_submit"
    /\ current_attempt = 2
    /\ swap_history[1].done
    /\ Last(applied) = 2
    /\ \A r \in Replicas : ~done[r]

C22_PollFalseChangesNothing ==
    [][/\ (value # "false" /\ value' = "false") =>
             /\ pc' = "loop"
             /\ err' = "none"
             /\ UNCHANGED <<jobDoc, replicaDocs, snapshot, inflight>>
       /\ (pc = "loop" /\ value = "false") =>
             /\ current_attempt = begin[1]
             /\ Len(swap_history) = begin[2]
             /\ current_attempt <= n_attempts
             /\ ~pt_done
             /\ err = "none"
             /\ UNCHANGED <<jobDoc, err>>
             /\ pc' # pc =>
                   /\ pc' = "poll_enter"
                   /\ UNCHANGED <<replicaDocs, snapshot, inflight>> ]_vars

C22_Witness ==
    /\ pc = "poll_enter"
    /\ retries = max_tries
    /\ max_tries = 2
    /\ current_attempt = 1
    /\ Len(swap_history) = 1
    /\ ~AllDone(done)

SubmitPcs == {"init_submit", "swap_submit"}
ResetPcs == {"init_reset", "swap_reset"}

\* C23: submit_sims resets done on every replica of the ladder before it
\* calls project.submit(): at the submit call every replica has done =
\* false, a successful call launches a run of every replica, and a done
\* flag falls only in the reset, at a moment when no run is in flight, so
\* that no done = true of a run launched by this call can be overwritten.
C23_ResetWholeLadderBeforeSubmit ==
    [][/\ pc \in SubmitPcs => \A r \in Replicas : ~done[r] /\ ~inflight[r]
       /\ (pc \in SubmitPcs /\ pc' = "loop") => \A r \in Replicas : inflight'[r]
       /\ (pc \in ResetPcs /\ pc' # pc) =>
             /\ pc' \in SubmitPcs
             /\ \A r \in Replicas : ~done'[r]
       /\ (\E r \in Replicas : done[r] /\ ~done'[r]) =>
             /\ pc \in ResetPcs
             /\ \A r \in Replicas : ~inflight[r] ]_vars

C23_Witness ==
    /\ pc = "swap_submit"
    /\ nrep = 3
    /\ i = 1
    /\ Last(applied) = 2
    /\ ~done[2]
    /\ snapshot[2] = base[2]

\* the positions held across the ladder, counted with multiplicity
Holders(snap, c) == {r \in DOMAIN snap : snap[r] = c}
SamePositions(s, t) ==
    \A r \in DOMAIN s :
        Cardinality(Holders(s, s[r])) = Cardinality(Holders(t, s[r]))

\* C24: when both writes of an exchange have succeeded, replica i's
\* snapshot holds the positions replica j's held when the record was
\* appended and vice versa, every other replica's snapshot is as it was,
\* and the positions held across the ladder are a permutation of those
\* held before.
C24_SwapExchangesExactlyTwo ==
    pc \in {"swap_reset", "swap_submit"} =>
        /\ snapshot[sim_jobs[i]] = base[sim_jobs[j]]
        /\ snapshot[sim_jobs[j]] = base[sim_jobs[i]]
        /\ \A r \in Replicas \ {sim_jobs[i], sim_jobs[j]} : snapshot[r] = base[r]
        /\ SamePositions(snapshot, base)
        /\ Readable(snapshot[sim_jobs[i]])
        /\ Readable(snapshot[sim_jobs[j]])

C24_Witness ==
    /\ pc = "swap_reset"
    /\ nrep = 3
    /\ current_attempt = 2
    /\ i = 2
    /\ base = [r \in Replicas |-> Conf(IF r = 0 THEN 1 ELSE IF r = 1 THEN 0 ELSE 2)]
    /\ snapshot = [r \in Replicas |-> Conf(IF r = 0 THEN 1 ELSE IF r = 1 THEN 2 ELSE 0)]

\* a record but for its done flag
Fields(rec) == [rec EXCEPT !.done = FALSE]

\* C25: swap_history only grows at its end, by the record of the pair
\* just selected: indices i and j = i - 1, the parameters and the job ids
\* of ladder entries i and j, done = false; a record already in the history
\* keeps its place and all its fields but done, and done never goes back
\* from true to false.
C25_HistoryAppendOnly ==
    [][/\ Len(swap_history') >= Len(swap_history)
       /\ \A k \in 1 .. Len(swap_history) :
             /\ Fields(swap_history'[k]) = Fields(swap_history[k])
             /\ swap_history[k].done => swap_history'[k].done
       /\ Len(swap_history') > Len(swap_history) =>
             /\ Len(swap_history') = Len(swap_history) + 1
             /\ Last(swap_history') =
                   [i |-> i, j |-> i - 1,
                    param_i |-> SwapParameters[i + 1],
                    param_j |-> SwapParameters[i],
                    job_i |-> sim_jobs[i], job_j |-> sim_jobs[i - 1],
                    done |-> FALSE]
             /\ j = i - 1 ]_vars

C25_Witness ==
    /\ Len(swap_history) = 3
    /\ swap_history[1].done
    /\ swap_history[2].done
    /\ ~swap_history[3].done
    /\ swap_history[1].i = 2
    /\ swap_history[1].param_i = 20
    /\ swap_history[1].param_j = 10
    /\ swap_history[3].i = 1

\* C26: with max_tries >= 1, when every submitted run comes to its end and
\* no call fails, the PT job's done flag is eventually set, also when polls
\* time out and return False on the way.
C26_EventuallyTerminal ==
    <>(pt_done \/ err # "none")

C26_Witness ==
    /\ pt_done
    /\ pc = "returned"
    /\ err = "none"
    /\ max_tries = 1
    /\ n_attempts = 2
    /\ nrep = 3
    /\ \A k \in 1 .. Len(applied) : applied[k] = 2
    /\ \A r \in Replicas : Readable(snapshot[r])

\* C27: when the PT job's done flag is true, the last record of
\* swap_history has done = false and every earlier record has done = true;
\* the flag is set at line 257 right after the loop test that follows the
\* last resubmission, without a poll in between, so the runs of that
\* submission may still be in flight.
C27_LastRecordNeverFinalized ==
    /\ (pc = "finish" \/ pt_done) =>
          /\ Len(swap_history) >= 1
          /\ ~Last(swap_history).done
          /\ \A k \in 1 .. Len(swap_history) - 1 : swap_history[k].done
          /\ current_attempt = n_attempts + 1
    /\ pc = "finish" => begin = <<current_attempt, Len(swap_history)>>

C27_Witness ==
    /\ pt_done
    /\ pc = "returned"
    /\ Len(swap_history) = 3
    /\ swap_history[2].done
    /\ ~swap_history[3].done
    /\ applied[3] = 2
    /\ \E r \in Replicas : ~done[r] /\ inflight[r]

\* C28: whenever the coordinator is in a poll, the initial wait it passed
\* is first_wait if current_attempt = 0 and init_wait otherwise, also in a
\* poll repeated after a timeout; the number of tries is the job's
\* max_tries in every poll.
C28_FirstWaitOnlyAtAttemptZero ==
    pc \in PollPcs =>
        /\ wait_time \in {"first_wait", "init_wait"}
        /\ (wait_time = "first_wait") <=> (current_attempt = 0)
        /\ (wait_time = "init_wait") <=> (current_attempt > 0)
        /\ begin[1] = current_attempt
        /\ retries <= max_tries

\* a poll of attempt 0 entered anew after one that timed out
C28_Witness ==
    /\ pc = "poll_enter"
    /\ current_attempt = 0
    /\ wait_time = "first_wait"
    /\ max_tries = 2
    /\ retries = max_tries
    /\ \E r \in Replicas : ~done[r]

=============================================================================
